---- MODULE Spec2Model ----
(***************************************************************************)
(* The Picarro pipeline of the Summit repository: the file tracker and     *)
(* ingestor (check_load_new_data), the calibration segmenter and           *)
(* quantifier (find_cal_events), and the master calibration matcher with   *)
(* its curve fit (create_mastercals), all working on one store.            *)
(*                                                                         *)
(* Datetimes are represented by their POSIX second count, timedeltas by a  *)
(* number of seconds.  Concentrations are exact rationals [n, d].          *)
(* Python indices are kept 0-based; a Python list is a sequence whose      *)
(* element i is at position i + 1.                                         *)
(*                                                                         *)
(* A local of the code that is read more than once is bound by a           *)
(* quantifier over a singleton set, Only({body : x \in {value}}), so that   *)
(* it is computed once, as the code computes it.                           *)
(***************************************************************************)
EXTENDS Integers, Sequences, FiniteSets, TLC

(***************************************************************************)
(* Bounds of the model.                                                    *)
(***************************************************************************)
\* rows the instrument writes to the data directory in one behaviour
MaxRows == 4
\* data files that come to exist under the data directory
MaxFiles == 2
\* restarts of the process after a task has died
MaxRestarts == 1
\* calibration events of one standard in the store a matching run starts from
MaxEvents == 2
\* rows the instrument writes after that store was built
MaxLateRows == 1

(***************************************************************************)
(* Program constants.                                                      *)
(***************************************************************************)
\* find_cal_indices: a gap of more than 60 s starts a new event
GapSeconds == 60
\* find_cal_events: events shorter than 90 s are given standard 'dump'
MinDuration == 90
\* find_cal_events: results are calculated going 21 s back
BackPeriod == 21
\* create_mastercals: match_cals_by_min(..., minutes=5)
MatchMinutes == 5
\* filter_postcal_data: instrument_status given to flushed data
FilteredStatus == 999
\* Datum docstring: the instrument's "good data" status
GoodStatus == 963
\* filter_postcal_data: data are filtered for one minute after the event
FlushMinutes == 1

\* mpv_converter
mpv_converter == [p \in {0, 1, 2, 3, 4} |->
    CASE p = 0 -> "no_sequence"
      [] p = 1 -> "ambient"
      [] p = 2 -> "low_std"
      [] p = 4 -> "mid_std"
      [] p = 3 -> "high_std"]

Compounds == <<"co", "co2", "ch4">>

\* the valve positions of the three standards
StandardMPVs == {2, 3, 4}

(***************************************************************************)
(* Exact rational arithmetic (Python floats without their rounding).       *)
(***************************************************************************)
\* the element of a singleton set
Only(S) == CHOOSE x \in S : TRUE

Abs(x) == IF x < 0 THEN -x ELSE x

RECURSIVE Gcd(_, _)
Gcd(a, b) == IF b = 0 THEN a ELSE Only({Gcd(y, r) : y \in {b}, r \in {a % b}})

\* the fraction n / d in lowest terms with a positive denominator
Rat(n, d) ==
    Only({[n |-> s * (x \div g), d |-> s * (y \div g)] :
             <<x, y, g, s>> \in {<<p, q, Gcd(Abs(p), Abs(q)), IF q < 0 THEN -1 ELSE 1>> :
                                    p \in {n}, q \in {d}}})

RInt(k) == [n |-> k, d |-> 1]

RAdd(a, b) ==
    Only({Rat(x.n * (y.d \div g) + y.n * (x.d \div g), x.d * (y.d \div g)) :
             <<x, y, g>> \in {<<p, q, Gcd(p.d, q.d)>> : p \in {a}, q \in {b}}})

RNeg(a) == Only({[n |-> -x.n, d |-> x.d] : x \in {a}})

RSub(a, b) == RAdd(a, RNeg(b))

RMul(a, b) ==
    Only({Rat((x.n \div g1) * (y.n \div g2), (x.d \div g2) * (y.d \div g1)) :
             <<x, y, g1, g2>> \in {<<p, q, Gcd(Abs(p.n), q.d), Gcd(Abs(q.n), p.d)>> :
                                      p \in {a}, q \in {b}}})

\* b is not zero
RDiv(a, b) == Only({RMul(a, Rat(y.d, y.n)) : y \in {b}})

RLess(a, b) == a.n * b.d < b.n * a.d

(***************************************************************************)
(* Python list helpers.                                                    *)
(***************************************************************************)
\* seq[lo:] with Python's treatment of a negative or too large lo
SliceFrom(seq, lo) ==
    LET n == Len(seq)
        l == IF lo < 0 THEN (IF n + lo < 0 THEN 0 ELSE n + lo)
                       ELSE (IF lo > n THEN n ELSE lo)
    IN  SubSeq(seq, l + 1, n)

\* seq[lo:hi] for 0 <= lo, 0 <= hi
Slice(seq, lo, hi) ==
    LET n == Len(seq)
        h == IF hi > n THEN n ELSE hi
    IN  SubSeq(seq, lo + 1, h)

Range(seq) == {seq[i] : i \in 1..Len(seq)}

Contains(seq, x) == \E i \in 1..Len(seq) : seq[i] = x

MaxOf(S) == CHOOSE x \in S : \A y \in S : y <= x

MinOf(S) == CHOOSE x \in S : \A y \in S : x <= y

\* the elements of a set of integers in increasing order
SetToSortedSeq(S) ==
    [r \in 1..Cardinality(S) |->
        CHOOSE x \in S : Cardinality({y \in S : y < x}) = r - 1]

RECURSIVE Perms(_)
\* every ordering of a finite set
Perms(S) ==
    IF S = {} THEN {<<>>}
    ELSE UNION {{<<x>> \o p : p \in Perms(S \ {x})} : x \in S}

(***************************************************************************)
(* The data directory and what the instrument writes into it.              *)
(***************************************************************************)
\* the paths a data file can have under the data root
Paths == {"d1/A.dat", "d1/B.dat"}

\* Path.name: the last component of the path
PathName(p) == IF p = "d1/B.dat" THEN "B.dat" ELSE "A.dat"

\* the EPOCH_TIME values a row can carry
Times == {0, 30, 90, 151}

\* the MPVPosition values a row can carry
RowMPVs == {2, 3}

\* what the analyzer reports (ppm) at time t with the valve at position m: the
\* gas in the line is the one the valve selects, and the reading drifts in time
Reading(t, m) ==
    LET co == CASE m = 2 -> 70 [] m = 3 -> 175 [] m = 4 -> 117 [] OTHER -> 100
        co2 == CASE m = 2 -> 390 [] m = 3 -> 429 [] m = 4 -> 409 [] OTHER -> 400
        ch4 == CASE m = 2 -> 1838 [] m = 3 -> 2051 [] m = 4 -> 1925 [] OTHER -> 1900
    IN  [CO_sync |-> Rat(co + t \div 30, 1000),
         CO2_dry_sync |-> Rat(co2 + t \div 30, 1),
         CH4_dry_sync |-> Rat(ch4 + t \div 30, 1000)]

\* the row the analyzer writes at time t with the valve at position m
FileRow(t, m) ==
    [EPOCH_TIME |-> t, MPVPosition |-> m, INST_STATUS |-> GoodStatus,
     CO_sync |-> Reading(t, m).CO_sync,
     CO2_dry_sync |-> Reading(t, m).CO2_dry_sync,
     CH4_dry_sync |-> Reading(t, m).CH4_dry_sync]

\* the certified concentrations of the three standards
standards ==
    [low_std |-> [co |-> Rat(696, 10), co2 |-> Rat(39024, 100), ch4 |-> Rat(18385, 10)],
     mid_std |-> [co |-> Rat(1174, 10), co2 |-> Rat(40865, 100), ch4 |-> Rat(19255, 10)],
     high_std |-> [co |-> Rat(1746, 10), co2 |-> Rat(42853, 100), ch4 |-> Rat(20506, 10)]]

Tasks == {"check_load_new_data", "find_cal_events", "create_mastercals"}

\* the coroutines of the event loop: the tasks that use the store, and the one
\* that moves files into the data directory
LoopTasks == Tasks \cup {"fake_move_data"}

VARIABLES
    disk,          \* path -> the rows of the file at that path (<<>>: no file)
    rowsLeft,      \* rows the instrument may still write
    dbFiles,       \* table files: row i has id i
    dbData,        \* table data: row i has id i
    dbCals,        \* table cals: row i has id i
    dbMasterCals,  \* table mastercals: row i has id i
    alive,         \* task -> its loop has not ended with an uncaught exception
    restarts,      \* times the process was started again
    fresh,         \* no row was written since the last completed ingestion cycle
    crashed,       \* the file an ingestion cycle was processing when it failed (history)
    matched,       \* what the last cycle of create_mastercals built in memory (history)
    loop,          \* the event loop: the coroutine it runs and where each coroutine is
    certified      \* the table of certified concentrations the program is run with

vars == <<disk, rowsLeft, dbFiles, dbData, dbCals, dbMasterCals, alive, restarts,
          fresh, crashed, matched, loop, certified>>

\* the store, the files and what is recorded of the tasks
taskVars == <<disk, rowsLeft, dbFiles, dbData, dbCals, dbMasterCals, alive, restarts,
              fresh, crashed, matched, certified>>

\* every coroutine is suspended at the sleep that ends its iteration; running
\* is the coroutine the loop executes ("": none), at is the position of each
\* coroutine, view is what its iteration has read, remote is the test_data
\* directory that fake_move_data copies from
NoLoop ==
    [running |-> "",
     at |-> [t \in LoopTasks |-> "sleeping"],
     view |-> [t \in LoopTasks |-> <<>>],
     remote |-> [p \in Paths |-> <<>>]]

\* no MasterCal built yet
NoMatch == [triples |-> <<>>, mastercals |-> <<>>, tie |-> "", read |-> 0]

EmptyStore ==
    /\ dbFiles = <<>>
    /\ dbData = <<>>
    /\ dbCals = <<>>
    /\ dbMasterCals = <<>>

Init ==
    /\ disk = [p \in Paths |-> <<>>]
    /\ rowsLeft = MaxRows
    /\ EmptyStore
    /\ alive = [t \in Tasks |-> TRUE]
    /\ restarts = 0
    /\ fresh = TRUE
    /\ crashed = 0
    /\ matched = NoMatch
    /\ loop = NoLoop
    /\ certified = standards

\* Path.stat(path).st_size, in rows
check_filesize(p) == Len(disk[p])

\* the instrument (or the file transfer) appends one row to a data file
WriteRow ==
    /\ rowsLeft > 0
    /\ \E p \in DOMAIN disk, t \in Times, m \in RowMPVs :
        /\ disk[p] # <<>> \/ Cardinality({q \in DOMAIN disk : disk[q] # <<>>}) < MaxFiles
        /\ disk[p] # <<>> => disk[p][Len(disk[p])].EPOCH_TIME < t
        /\ disk' = [disk EXCEPT ![p] = Append(@, FileRow(t, m))]
    /\ rowsLeft' = rowsLeft - 1
    /\ fresh' = FALSE
    /\ UNCHANGED <<dbFiles, dbData, dbCals, dbMasterCals, alive, restarts, crashed,
                   matched, loop, certified>>

(***************************************************************************)
(* check_load_new_data: the file tracker and the ingestor.                 *)
(***************************************************************************)
\* datetime.utcfromtimestamp: the datetime is kept as its second count
utcfromtimestamp(e) == e

\* Datum.__init__ on a row of the frame after the unit conversions
Datum(line) ==
    [date |-> utcfromtimestamp(line.EPOCH_TIME),
     instrument_status |-> line.INST_STATUS,
     mpv_position |-> line.MPVPosition,
     co |-> line.CO_sync,
     co2 |-> line.CO2_dry_sync,
     ch4 |-> line.CH4_dry_sync,
     file_id |-> 0,
     cal_id |-> 0]

\* pd.read_csv and the conversion of CO and CH4 from ppm to ppb
ReadFrame(p) ==
    [i \in 1..Len(disk[p]) |->
        [disk[p][i] EXCEPT !.CO_sync = RMul(@, RInt(1000)),
                           !.CH4_dry_sync = RMul(@, RInt(1000))]]

\* DataFile.__init__
DataFile(p) == [name |-> PathName(p), path |-> p, size |-> check_filesize(p),
                processed |-> FALSE]

\* get_all_data_files: the files under the data root, in the order rglob gives
AllAvailableFiles == Perms({p \in DOMAIN disk : disk[p] # <<>>})

\* session.query(DataFile).filter(DataFile.processed == False).all()
UnprocessedFiles(files) ==
    SelectSeq([i \in 1..Len(files) |-> i], LAMBDA i : ~files[i].processed)

\* the lookup without its except clause: one_or_none() alone, where -1 is
\* MultipleResultsFound leaving the loop
DbMatchUncaught(files, name) ==
    LET ids == {i \in 1..Len(files) : files[i].name = name}
    IN  IF ids = {} THEN 0
        ELSE IF Cardinality(ids) > 1 THEN -1
        ELSE CHOOSE i \in ids : TRUE

\* lines 80-84, db_files.filter(DataFile._name == name): one_or_none(), and
\* first() when it raises MultipleResultsFound; 0 is None
DbMatch(files, name) ==
    LET ids == {i \in 1..Len(files) : files[i].name = name}
    IN  IF ids = {} THEN 0 ELSE CHOOSE i \in ids : \A j \in ids : i <= j

\* an exception leaves the scan of lines 79-93
ScanRaises(files, available) ==
    {i \in 1..Len(available) : DbMatch(files, PathName(available[i])) = -1} # {}

RECURSIVE ScanFiles(_, _)
\* lines 79-93: what the scan of the available files appends to
\* files_to_process; id 0 is a DataFile not yet in the store
ScanFiles(files, available) ==
    IF available = <<>> THEN <<>>
    ELSE LET file == Head(available)
             db_match == DbMatch(files, PathName(file))
             entry ==
                 IF db_match = 0 THEN <<[id |-> 0, path |-> file]>>
                 ELSE IF check_filesize(file) > files[db_match].size
                      THEN <<[id |-> db_match, path |-> files[db_match].path]>>
                      ELSE <<>>
         IN  entry \o ScanFiles(files, Tail(available))

\* lines 75-93
FilesToProcess(files, available) ==
    [i \in 1..Len(UnprocessedFiles(files)) |->
        [id |-> UnprocessedFiles(files)[i], path |-> files[UnprocessedFiles(files)[i]].path]]
    \o ScanFiles(files, available)

RECURSIVE MergeFiles(_, _)
\* lines 100-103: session.merge of every file to process, then the commit;
\* gives the table and the ids of the merged files
MergeFiles(files, entries) ==
    IF entries = <<>> THEN [files |-> files, ids |-> <<>>]
    ELSE LET e == Head(entries)
             merged == IF e.id = 0 THEN Append(files, DataFile(e.path)) ELSE files
             id == IF e.id = 0 THEN Len(merged) ELSE e.id
             rest == MergeFiles(merged, Tail(entries))
         IN  [files |-> rest.files, ids |-> <<id>> \o rest.ids]

\* lines 114-121: the rows of one file whose date is not in db_dates are added
AddData(data, lines, file_id, db_dates) ==
    data \o SelectSeq([i \in 1..Len(lines) |-> [Datum(lines[i]) EXCEPT !.file_id = file_id]],
                      LAMBDA d : d.date \notin db_dates)

\* line 71: the dates known when the cycle starts
DbDates(data) == {data[i].date : i \in 1..Len(data)}

RECURSIVE LoadFiles(_, _, _, _)
\* lines 105-125: every file to process is read, its new rows are added, it is
\* marked processed and the session is committed
LoadFiles(files, data, ids, db_dates) ==
    IF ids = <<>> THEN [files |-> files, data |-> data]
    ELSE LET id == Head(ids)
             loaded == AddData(data, ReadFrame(files[id].path), id, db_dates)
             marked == [files EXCEPT ![id].processed = TRUE]
         IN  LoadFiles(marked, loaded, Tail(ids), db_dates)

\* lines 61-125: what one iteration of the loop of check_load_new_data does
IngestorWork ==
    /\ alive["check_load_new_data"]
    /\ \E available \in AllAvailableFiles :
        IF ScanRaises(dbFiles, available)
        THEN /\ alive' = [alive EXCEPT !["check_load_new_data"] = FALSE]
             /\ UNCHANGED <<dbFiles, dbData, fresh>>
        ELSE /\ LET files_to_process == FilesToProcess(dbFiles, available)
                    merged == MergeFiles(dbFiles, files_to_process)
                    loaded == LoadFiles(merged.files, dbData, merged.ids, DbDates(dbData))
                IN  IF Len(files_to_process) = 0
                    THEN UNCHANGED <<dbFiles, dbData>>
                    ELSE /\ dbFiles' = loaded.files
                         /\ dbData' = loaded.data
             /\ fresh' = TRUE
             /\ UNCHANGED alive
    /\ UNCHANGED <<disk, rowsLeft, dbCals, dbMasterCals, restarts, crashed, matched,
                   certified>>

\* one iteration of the loop of check_load_new_data
Ingestor == IngestorWork /\ UNCHANGED loop

\* an iteration of check_load_new_data that ends with an uncaught exception
\* (the store or a file cannot be read) while it processes the file after the
\* first k: the commits made so far stay, the rest of the session is lost.
\* Only failures that a restart can follow are explored.
IngestorCrashAt(available, k) ==
    /\ alive["check_load_new_data"]
    /\ restarts < MaxRestarts
    /\ LET files_to_process == FilesToProcess(dbFiles, available)
           merged == MergeFiles(dbFiles, files_to_process)
       IN  /\ k \in 0..(Len(files_to_process) - 1)
           /\ LET loaded == LoadFiles(merged.files, dbData, SubSeq(merged.ids, 1, k),
                                      DbDates(dbData))
              IN  /\ dbFiles' = loaded.files
                  /\ dbData' = loaded.data
                  /\ crashed' = merged.ids[k + 1]
    /\ alive' = [alive EXCEPT !["check_load_new_data"] = FALSE]
    /\ fresh' = FALSE
    /\ UNCHANGED <<disk, rowsLeft, dbCals, dbMasterCals, restarts, matched, loop,
                   certified>>

IngestorCrash ==
    \E available \in AllAvailableFiles : \E k \in 0..(MaxFiles - 1) :
        IngestorCrashAt(available, k)

(***************************************************************************)
(* find_cal_events: the calibration segmenter and quantifier.              *)
(***************************************************************************)
\* a column that holds NULL, or an attribute that is None, is <<>>; a value v
\* is <<v>>
None == <<>>

Some(v) == <<v>>

\* the ids of the table data in the order a query without ORDER BY gives them
DataIds(data) == [i \in 1..Len(data) |-> i]

\* the query without its filter on cal_id: every Datum of the valve position
DataOfValve(data, MPV) ==
    SelectSeq(DataIds(data), LAMBDA i : data[i].mpv_position = MPV)

\* lines 141-145: Datum.mpv_position == MPV, Datum.cal_id == None
UnlinkedData(data, MPV) ==
    SelectSeq(DataIds(data), LAMBDA i : data[i].mpv_position = MPV /\ data[i].cal_id = 0)

\* line 153: sort_values(by=['date']), rows of one date staying in their order
SortByDate(data, ids) ==
    [r \in 1..Len(ids) |->
        ids[CHOOSE i \in 1..Len(ids) :
                Cardinality({j \in 1..Len(ids) :
                    \/ data[ids[j]].date < data[ids[i]].date
                    \/ data[ids[j]].date = data[ids[i]].date /\ j < i}) = r - 1]]

\* find_cal_indices: the (0-based) indices whose date is more than 60 s after
\* the date before
find_cal_indices(datetimes) ==
    SelectSeq([i \in 1..Len(datetimes) |-> i - 1],
              LAMBDA i : i >= 1 /\ datetimes[i + 1] - datetimes[i] > GapSeconds)

\* CalEvent.dates
Dates(data, ids) == [i \in 1..Len(ids) |-> data[ids[i]].date]

\* CalEvent.__init__; data_to_use is history: the Datums the last calc_result
\* took its statistics from
CalEvent(data, event_data, standard_used) ==
    [date |-> Dates(data, event_data)[Len(event_data)],
     data |-> event_data,
     standard_used |-> standard_used,
     co_result |-> None,
     co2_result |-> None,
     ch4_result |-> None,
     back_period |-> None,
     mastercal_id |-> 0,
     data_to_use |-> <<>>]

RECURSIVE EventsOf(_, _, _, _, _)
\* lines 162-173: one CalEvent for the rows between two indices; the rows are
\* queried again by id, which gives them in the order of their ids
EventsOf(data, ids, indices, prev_ind, standard) ==
    IF indices = <<>> THEN <<>>
    ELSE Only({<<CalEvent(data, event_data, standard)>>
               \o EventsOf(data, ids, rest, ind, standard) :
                  <<ind, rest, event_data>> \in
                      {<<i, Tail(indices), SetToSortedSeq(Range(Slice(ids, prev_ind, i)))>> :
                          i \in {Head(indices)}}})

\* find_ind of calc_result; None is -2 (no index is)
find_ind(dates, cutoff) ==
    LET over == {i \in 1..Len(dates) : dates[i] > cutoff}
    IN  IF over = {} THEN -2
        ELSE (CHOOSE i \in over : \A j \in over : i <= j) - 1 - 1

RECURSIVE RSum(_)
RSum(xs) == IF xs = <<>> THEN RInt(0) ELSE RAdd(Head(xs), RSum(Tail(xs)))

\* statistics.mean
Mean(xs) == RDiv(RSum(xs), RInt(Len(xs)))

\* sorted(xs)
RSorted(xs) ==
    [r \in 1..Len(xs) |->
        xs[CHOOSE i \in 1..Len(xs) :
               Cardinality({j \in 1..Len(xs) :
                   RLess(xs[j], xs[i]) \/ (xs[j] = xs[i] /\ j < i)}) = r - 1]]

\* statistics.median
Median(xs) ==
    Only({IF n % 2 = 1 THEN sorted[n \div 2 + 1]
          ELSE RDiv(RAdd(sorted[n \div 2], sorted[n \div 2 + 1]), RInt(2)) :
             sorted \in {RSorted(xs)}, n \in {Len(xs)}})

\* statistics.variance: statistics.stdev is its square root, which is kept
\* squared here
Variance(xs) ==
    Only({RDiv(RSum([i \in 1..Len(xs) |-> RMul(RSub(xs[i], m), RSub(xs[i], m))]),
               RInt(Len(xs) - 1)) :
             m \in {Mean(xs)}})

\* the values of a compound over Datums: CalEvent.co, .co2, .ch4
CompoundData(data, ids, compound) ==
    [i \in 1..Len(ids) |->
        IF compound = "co" THEN data[ids[i]].co
        ELSE IF compound = "co2" THEN data[ids[i]].co2
        ELSE data[ids[i]].ch4]

\* lines 166-172 of calc_result: the (0-based) index the statistics start at
DataToUse(seq, dates, date, back_period) ==
    LET ind == find_ind(dates, date - back_period)
    IN  IF ind = -2 THEN <<>> ELSE SliceFrom(seq, ind)

\* calc_result raises: statistics.stdev needs two data points
CalcRaises(data, ev, back_period) ==
    /\ find_ind(Dates(data, ev.data), ev.date - back_period) # -2
    /\ Len(DataToUse(ev.data, Dates(data, ev.data), ev.date, back_period)) < 2

\* lines 166-172 of calc_result for one compound
Result(data, ev, compound, back_period) ==
    Only({IF ind # -2
          THEN Some([mean |-> Some(Mean(data_to_use)),
                     median |-> Some(Median(data_to_use)),
                     stdev |-> Some(Variance(data_to_use))])
          ELSE Some([mean |-> None, median |-> None, stdev |-> None]) :
             <<ind, data_to_use>> \in
                 {<<find_ind(dates, ev.date - back_period),
                    DataToUse(CompoundData(data, ev.data, compound), dates, ev.date,
                              back_period)>> :
                     dates \in {Dates(data, ev.data)}}})

\* the loop of line 182 over 'co' alone
calc_result_of_co(data, ev, back_period) ==
    [ev EXCEPT !.co_result = Result(data, ev, "co", back_period),
               !.back_period = Some(back_period),
               !.data_to_use = DataToUse(ev.data, Dates(data, ev.data), ev.date,
                                         back_period)]

\* lines 182-183: calc_result(cpd, 21) for the three compounds
calc_result(data, ev, back_period) ==
    [ev EXCEPT !.co_result = Result(data, ev, "co", back_period),
               !.co2_result = Result(data, ev, "co2", back_period),
               !.ch4_result = Result(data, ev, "ch4", back_period),
               !.back_period = Some(back_period),
               !.data_to_use = DataToUse(ev.data, Dates(data, ev.data), ev.date,
                                         back_period)]

\* line 176: the event is too short to be a calibration
TooShort(data, ev) == ev.date - Dates(data, ev.data)[1] < MinDuration

\* lines 175-187: the event as it is merged into the session
Quantified(data, ev) ==
    IF TooShort(data, ev) THEN [ev EXCEPT !.standard_used = "dump"]
    ELSE calc_result(data, ev, BackPeriod)

\* lines 155-173: the events found in the unlinked data of one valve position
CalEventsOf(data, MPV) ==
    Only({EventsOf(data, ids, indices, 0, mpv_converter[MPV]) :
             <<ids, indices>> \in
                 {<<sorted, find_cal_indices(Dates(data, sorted))>> :
                     sorted \in {SortByDate(data, UnlinkedData(data, MPV))}}})

\* the flush of CalEvent.data: every Datum of the event gets its cal_id
LinkData(data, ids, cal_id) ==
    [i \in 1..Len(data) |->
        IF Contains(ids, i) THEN [data[i] EXCEPT !.cal_id = cal_id] ELSE data[i]]

RECURSIVE MergeEvents(_, _, _)
\* lines 175-188 for the events of one standard: the events are quantified and
\* merged, and the commit writes them and their Datums' cal_id
MergeEvents(data, cals, events) ==
    IF events = <<>> THEN [data |-> data, cals |-> cals]
    ELSE Only({MergeEvents(linked, added, rest) :
                  <<linked, added, rest>> \in
                      {<<LinkData(data, ev.data, Len(cals) + 1), Append(cals, ev),
                         Tail(events)>> :
                          ev \in {Quantified(data, Head(events))}}})

RECURSIVE SegmentStandards(_, _, _, _)
\* lines 155-188: the loop over the standards, in the order of lines 140-153.
\* Every event is built from the data as selected at the start of the cycle;
\* an exception of calc_result ends the task with the commits made before it.
SegmentStandards(selected, data, cals, MPVs) ==
    IF MPVs = <<>> THEN [data |-> data, cals |-> cals, raised |-> FALSE]
    ELSE Only({IF \E i \in 1..Len(events) :
                      /\ ~TooShort(selected, events[i])
                      /\ CalcRaises(selected, events[i], BackPeriod)
               THEN [data |-> data, cals |-> cals, raised |-> TRUE]
               ELSE Only({SegmentStandards(selected, merged.data, merged.cals, rest) :
                             merged \in {MergeEvents(data, cals, events)},
                             rest \in {Tail(MPVs)}}) :
                  events \in {CalEventsOf(selected, Head(MPVs))}})

\* lines 132-191: what one iteration of the loop of find_cal_events does
SegmenterWork ==
    /\ alive["find_cal_events"]
    /\ \E done \in {SegmentStandards(dbData, dbData, dbCals, <<2, 3, 4>>)} :
           /\ dbData' = done.data
           /\ dbCals' = done.cals
           /\ alive' = [alive EXCEPT !["find_cal_events"] = ~done.raised]
    /\ UNCHANGED <<disk, rowsLeft, dbFiles, dbMasterCals, restarts, fresh, crashed,
                   matched, certified>>

\* one iteration of the loop of find_cal_events
Segmenter == SegmenterWork /\ UNCHANGED loop

\* line 155: the order in which the standards are gone through
StandardOrder == <<2, 3, 4>>

\* the store when the loop of line 155 has committed the standards before
\* the j-th (line 188)
SegmentedBefore(j) ==
    SegmentStandards(dbData, dbData, dbCals, SubSeq(StandardOrder, 1, j - 1))

\* an iteration of find_cal_events that ends with an uncaught exception (the
\* store cannot be written) in the loop of line 175, when k events of the
\* j-th standard are merged: the commits of the standards before stay, the
\* merged events are lost with the session
SegmenterCrashAt(j, k) ==
    /\ alive["find_cal_events"]
    /\ restarts < MaxRestarts
    /\ k < Len(CalEventsOf(dbData, StandardOrder[j]))
    /\ \E before \in {SegmentedBefore(j)} :
        /\ ~before.raised
        /\ dbData' = before.data
        /\ dbCals' = before.cals
    /\ alive' = [alive EXCEPT !["find_cal_events"] = FALSE]
    /\ UNCHANGED <<disk, rowsLeft, dbFiles, dbMasterCals, restarts, fresh, crashed,
                   matched, loop, certified>>

SegmenterCrash ==
    \E j \in 1..Len(StandardOrder) : \E k \in 0..(MaxRows - 1) : SegmenterCrashAt(j, k)

(***************************************************************************)
(* create_mastercals: the master calibration matcher and the curve fit.    *)
(***************************************************************************)
\* the query without its filter on 'dump': an event tagged 'dump' is selected
\* under the standard its Datums were sampled from
UnlinkedCalsOfValve(cals, std) ==
    SelectSeq([i \in 1..Len(cals) |-> i],
              LAMBDA i : /\ cals[i].mastercal_id = 0
                         /\ mpv_converter[dbData[cals[i].data[1]].mpv_position] = std)

\* lines 210-220: CalEvent.mastercal_id == None, CalEvent.standard_used == std
UnlinkedCals(cals, std) ==
    SelectSeq([i \in 1..Len(cals) |-> i],
              LAMBDA i : cals[i].mastercal_id = 0 /\ cals[i].standard_used = std)

\* how find_closest_date chooses between two dates that are equally close
TieBreaks == {"earliest", "latest"}

\* summit_core.find_closest_date: the date of cal_dates with the least absolute
\* difference to date, and that difference
find_closest_date(date, cal_dates, tie) ==
    LET closest == {d \in cal_dates : \A e \in cal_dates : Abs(d - date) <= Abs(e - date)}
        match == IF tie = "earliest" THEN MinOf(closest) ELSE MaxOf(closest)
    IN  [match |-> match, diff |-> match - date]

\* summit_core.search_for_attr_value(cals, 'date', match): the first of cals
\* with that date
search_for_attr_value(cals, ids, match) ==
    ids[CHOOSE i \in 1..Len(ids) :
            /\ cals[ids[i]].date = match
            /\ \A j \in 1..(i - 1) : cals[ids[j]].date # match]

\* match_cals_by_min(cal, cals, minutes); 0 is None.  A datetime is never
\* falsy; a timedelta of zero is.
match_cals_by_min(cals, cal, ids, minutes, tie) ==
    IF ids = <<>> THEN 0
    ELSE LET found == find_closest_date(cals[cal].date,
                                        {cals[ids[i]].date : i \in 1..Len(ids)}, tie)
         IN  IF found.diff = 0 THEN 0
             ELSE IF Abs(found.diff) < minutes * 60
                  THEN search_for_attr_value(cals, ids, found.match)
                  ELSE 0

RECURSIVE TriplesMidFromLow(_, _, _, _, _)
\* the loop with the mid event searched from the low event instead of from
\* the high event matched to it
TriplesMidFromLow(cals, lowcals, highcals, midcals, tie) ==
    IF lowcals = <<>> THEN <<>>
    ELSE Only({(IF matching_high # 0 /\ matching_mid # 0
                THEN <<<<lowcal, matching_high, matching_mid>>>>
                ELSE <<>>)
               \o TriplesMidFromLow(cals, rest, highcals, midcals, tie) :
                  <<lowcal, rest, matching_high, matching_mid>> \in
                      {<<l, Tail(lowcals),
                         match_cals_by_min(cals, l, highcals, MatchMinutes, tie),
                         match_cals_by_min(cals, l, midcals, MatchMinutes, tie)>> :
                          l \in {Head(lowcals)}}})

RECURSIVE TriplesReducingPools(_, _, _, _, _)
\* the loop with the events of a triple taken out of the pools the later low
\* events are matched against
TriplesReducingPools(cals, lowcals, highcals, midcals, tie) ==
    IF lowcals = <<>> THEN <<>>
    ELSE Only({IF matching_high # 0 /\ matching_mid # 0
               THEN <<<<lowcal, matching_high, matching_mid>>>>
                    \o TriplesReducingPools(cals, rest,
                           SelectSeq(highcals, LAMBDA h : h # matching_high),
                           SelectSeq(midcals, LAMBDA m : m # matching_mid), tie)
               ELSE TriplesReducingPools(cals, rest, highcals, midcals, tie) :
                  <<lowcal, rest, matching_high, matching_mid>> \in
                      {<<low, Tail(lowcals), high,
                         IF high = 0 THEN 0
                         ELSE match_cals_by_min(cals, high, midcals, MatchMinutes, tie)>> :
                          <<low, high>> \in
                              {<<l, match_cals_by_min(cals, l, highcals, MatchMinutes, tie)>> :
                                  l \in {Head(lowcals)}}}})

RECURSIVE Triples(_, _, _, _, _)
\* lines 222-230: the [lowcal, matching_high, matching_mid] lists the
\* MasterCals are constructed from
Triples(cals, lowcals, highcals, midcals, tie) ==
    IF lowcals = <<>> THEN <<>>
    ELSE Only({(IF matching_high # 0 /\ matching_mid # 0
                THEN <<<<lowcal, matching_high, matching_mid>>>>
                ELSE <<>>)
               \o Triples(cals, rest, highcals, midcals, tie) :
                  <<lowcal, rest, matching_high, matching_mid>> \in
                      {<<low, Tail(lowcals), high,
                         IF high = 0 THEN 0
                         ELSE match_cals_by_min(cals, high, midcals, MatchMinutes, tie)>> :
                          <<low, high>> \in
                              {<<l, match_cals_by_min(cals, l, highcals, MatchMinutes, tie)>> :
                                  l \in {Head(lowcals)}}}})

RECURSIVE Subcals(_, _)
\* MasterCal.__init__ for every triple: MasterCal.subcals and
\* CalEvent.mastercal are two ends of one relationship, so an event put into
\* the subcals of a new MasterCal leaves the subcals of the one it was in
Subcals(built, triples) ==
    IF triples = <<>> THEN built
    ELSE LET new == Head(triples)
             left == [k \in 1..Len(built) |->
                         SelectSeq(built[k], LAMBDA c : ~Contains(new, c))]
         IN  Subcals(Append(left, new), Tail(triples))

\* find_cal_by_type; 0 is None
find_cal_by_type(cals, subcals, std_type) ==
    LET of == SelectSeq(subcals, LAMBDA c : cals[c].standard_used = std_type)
    IN  IF of = <<>> THEN 0 ELSE of[1]

\* the curve with its intercept taken at the high reading
calc_curve_from_high_reading(low, high) ==
    LET slope == RDiv(RSub(high.y, low.y), RSub(high.x, low.x))
    IN  [m |-> slope, intercept |-> RSub(high.y, RMul(slope, low.x))]

\* calc_two_pt_curve; high.x differs from low.x
calc_two_pt_curve(low, high) ==
    LET slope == RDiv(RSub(high.y, low.y), RSub(high.x, low.x))
    IN  [m |-> slope, intercept |-> RSub(low.y, RMul(slope, low.x))]

\* the result column of a compound
ResultOf(cal, cpd) ==
    IF cpd = "co" THEN cal.co_result
    ELSE IF cpd = "co2" THEN cal.co2_result
    ELSE cal.ch4_result

\* create_curve raises: a standard is missing from the subcals, a result or
\* its mean is None, or the two certified concentrations are equal
CurveRaises(cals, subcals) ==
    \/ \E std \in {"low_std", "mid_std", "high_std"} :
          find_cal_by_type(cals, subcals, std) = 0
    \/ \E std \in {"low_std", "mid_std", "high_std"}, i \in 1..Len(Compounds) :
          LET cal == cals[find_cal_by_type(cals, subcals, std)]
          IN  \/ ResultOf(cal, Compounds[i]) = None
              \/ ResultOf(cal, Compounds[i])[1].mean = None
    \/ \E i \in 1..Len(Compounds) :
          certified.low_std[Compounds[i]] = certified.high_std[Compounds[i]]

\* lines 235-250 for one compound with the offset taken as expected minus actual
CurveOfExpectedMinusActual(cals, subcals, cpd) ==
    LET low_val == ResultOf(cals[find_cal_by_type(cals, subcals, "low_std")], cpd)[1].mean[1]
        high_val == ResultOf(cals[find_cal_by_type(cals, subcals, "high_std")], cpd)[1].mean[1]
        mid_val == ResultOf(cals[find_cal_by_type(cals, subcals, "mid_std")], cpd)[1].mean[1]
        low_coord == [x |-> certified.low_std[cpd], y |-> low_val]
        mid_coord == [x |-> certified.mid_std[cpd], y |-> mid_val]
        high_coord == [x |-> certified.high_std[cpd], y |-> high_val]
        curve == calc_two_pt_curve(low_coord, high_coord)
    IN  [slope |-> curve.m,
         intercept |-> curve.intercept,
         middle_offset |-> RSub(RAdd(RMul(curve.m, mid_coord.x), curve.intercept),
                                mid_coord.y)]

\* lines 235-250 of create_curve for one compound
CurveOf(cals, subcals, cpd) ==
    LET low_val == ResultOf(cals[find_cal_by_type(cals, subcals, "low_std")], cpd)[1].mean[1]
        high_val == ResultOf(cals[find_cal_by_type(cals, subcals, "high_std")], cpd)[1].mean[1]
        mid_val == ResultOf(cals[find_cal_by_type(cals, subcals, "mid_std")], cpd)[1].mean[1]
        low_coord == [x |-> certified.low_std[cpd], y |-> low_val]
        mid_coord == [x |-> certified.mid_std[cpd], y |-> mid_val]
        high_coord == [x |-> certified.high_std[cpd], y |-> high_val]
        curve == calc_two_pt_curve(low_coord, high_coord)
    IN  [slope |-> curve.m,
         intercept |-> curve.intercept,
         middle_offset |-> RSub(mid_coord.y,
                                RAdd(RMul(curve.m, mid_coord.x), curve.intercept))]

\* MasterCal.create_curve, which does not raise
create_curve(cals, subcals) ==
    [subcals |-> subcals,
     co_slope |-> Some(CurveOf(cals, subcals, "co").slope),
     co_intercept |-> Some(CurveOf(cals, subcals, "co").intercept),
     co_middle_offset |-> Some(CurveOf(cals, subcals, "co").middle_offset),
     co2_slope |-> Some(CurveOf(cals, subcals, "co2").slope),
     co2_intercept |-> Some(CurveOf(cals, subcals, "co2").intercept),
     co2_middle_offset |-> Some(CurveOf(cals, subcals, "co2").middle_offset),
     ch4_slope |-> Some(CurveOf(cals, subcals, "ch4").slope),
     ch4_intercept |-> Some(CurveOf(cals, subcals, "ch4").intercept),
     ch4_middle_offset |-> Some(CurveOf(cals, subcals, "ch4").middle_offset)]

\* lines 214-230 for the unlinked low events in the order lowcals
BuildInOrder(cals, lowcals, tie) ==
    Only({[triples |-> triples, mastercals |-> Subcals(<<>>, triples), tie |-> tie,
           read |-> Len(cals)] :
             triples \in {Triples(cals, lowcals,
                                  UnlinkedCals(cals, "high_std"),
                                  UnlinkedCals(cals, "mid_std"), tie)}})

\* lines 209-230: the MasterCals of one cycle as they are in memory at line 232,
\* with the tie rule of find_closest_date and the number of CalEvents the
\* store held when it was queried
BuildMasterCals(cals, tie) == BuildInOrder(cals, UnlinkedCals(cals, "low_std"), tie)

\* the flush of MasterCal.subcals: every event of it gets its mastercal_id
LinkCals(cals, subcals, mastercal_id) ==
    [i \in 1..Len(cals) |->
        IF Contains(subcals, i) THEN [cals[i] EXCEPT !.mastercal_id = mastercal_id]
        ELSE cals[i]]

RECURSIVE CommitMasterCals(_, _, _, _)
\* lines 233-238: the curve of every MasterCal, session.add and the commit
CommitMasterCals(read, cals, mastercals, built) ==
    IF built = <<>> THEN [cals |-> cals, mastercals |-> mastercals]
    ELSE LET added == Append(mastercals, create_curve(read, Head(built)))
         IN  CommitMasterCals(read, LinkCals(cals, Head(built), Len(added)), added,
                              Tail(built))

\* lines 205-244: what an iteration of the loop of create_mastercals that
\* reaches its end does
MatcherWork ==
    /\ alive["create_mastercals"]
    /\ \E tie \in TieBreaks :
        \E built \in {BuildMasterCals(dbCals, tie)} :
            /\ \A k \in 1..Len(built.mastercals) : ~CurveRaises(dbCals, built.mastercals[k])
            /\ \E done \in {CommitMasterCals(dbCals, dbCals, dbMasterCals, built.mastercals)} :
                /\ dbCals' = done.cals
                /\ dbMasterCals' = done.mastercals
            /\ matched' = built
    /\ UNCHANGED <<disk, rowsLeft, dbFiles, dbData, alive, restarts, fresh, crashed,
                   certified>>

\* one iteration of the loop of create_mastercals that reaches its end
Matcher == MatcherWork /\ UNCHANGED loop

\* one iteration of the loop of create_mastercals that ends with an uncaught
\* exception of create_curve or of the plot it draws: nothing is committed
MatcherRaises ==
    /\ alive["create_mastercals"]
    /\ \E tie \in TieBreaks :
        \E built \in {BuildMasterCals(dbCals, tie)} :
            /\ built.mastercals # <<>>
            /\ matched' = built
    /\ alive' = [alive EXCEPT !["create_mastercals"] = FALSE]
    /\ UNCHANGED <<disk, rowsLeft, dbFiles, dbData, dbCals, dbMasterCals, restarts,
                   fresh, crashed, loop, certified>>

\* an iteration of create_mastercals that ends with an uncaught exception in
\* the loop of line 233, when the curves of k MasterCals are made and the
\* MasterCals are added to the session: the session is lost before its commit
MatcherCrashAt(tie, k) ==
    /\ alive["create_mastercals"]
    /\ restarts < MaxRestarts
    /\ \E built \in {BuildMasterCals(dbCals, tie)} :
        /\ k < Len(built.mastercals)
        /\ {i \in 1..k : CurveRaises(dbCals, built.mastercals[i])} = {}
        /\ matched' = built
    /\ alive' = [alive EXCEPT !["create_mastercals"] = FALSE]
    /\ UNCHANGED <<disk, rowsLeft, dbFiles, dbData, dbCals, dbMasterCals, restarts,
                   fresh, crashed, loop, certified>>

MatcherCrash ==
    \E tie \in TieBreaks : \E k \in 0..(MaxEvents - 1) : MatcherCrashAt(tie, k)

\* the process is started again: every task loop runs from its first line
Restart ==
    /\ \E t \in Tasks : ~alive[t]
    /\ restarts < MaxRestarts
    /\ restarts' = restarts + 1
    /\ alive' = [t \in Tasks |-> TRUE]
    /\ crashed' = 0
    /\ matched' = NoMatch
    /\ UNCHANGED <<disk, rowsLeft, dbFiles, dbData, dbCals, dbMasterCals, fresh, loop,
                   certified>>

Next ==
    \/ WriteRow
    \/ Ingestor
    \/ Segmenter

Spec == Init /\ [][Next]_vars

\* the instrument and the ingestor alone, where a cycle of the ingestor may
\* fail and the process may be started again
NextCrash ==
    \/ WriteRow
    \/ Ingestor
    \/ IngestorCrash
    \/ Restart

SpecCrash == Init /\ [][NextCrash]_vars

\* the paths of two data files that have the same name
NamesakePaths == {"d1/A.dat", "d2/A.dat"}

\* the instrument and the ingestor alone over a data root in which two files
\* of one name come to exist
InitNamesakes ==
    /\ disk = [p \in NamesakePaths |-> <<>>]
    /\ rowsLeft = MaxRows
    /\ EmptyStore
    /\ alive = [t \in Tasks |-> TRUE]
    /\ restarts = 0
    /\ fresh = TRUE
    /\ crashed = 0
    /\ matched = NoMatch
    /\ loop = NoLoop
    /\ certified = standards

NextNamesakes ==
    \/ WriteRow
    \/ Ingestor

SpecNamesakes == InitNamesakes /\ [][NextNamesakes]_vars

(***************************************************************************)
(* The pipeline from a store that already holds calibration events: the    *)
(* instrument has sampled the standards, and its files were ingested in    *)
(* one cycle of check_load_new_data and segmented in one cycle of          *)
(* find_cal_events.                                                        *)
(***************************************************************************)
\* the times a sampling of a standard can end at
EndTimes == {100, 260, 400, 530}

\* a standard is sampled for 90 s, one row every 45 s
SamplingTimes(end) == {end - 90, end - 45, end}

\* the first row of the next sampling of the standard at valve position m
NextSampling(m) == 900 + 5 * m

\* the end times the samplings of one standard can have: a sampling starts
\* more than 60 s after the one before ends
EndSets ==
    {E \in SUBSET EndTimes :
        /\ Cardinality(E) <= MaxEvents
        /\ \A a, b \in E : a < b => (b - 90) - a > GapSeconds}

\* the rows written when the samplings of standard m end at the times E[m]
SamplingRows(E) ==
    UNION {{[t |-> t, m |-> m] :
               t \in UNION {SamplingTimes(e) : e \in E[m]}
                     \cup (IF E[m] = {} THEN {} ELSE {NextSampling(m)})} :
           m \in StandardMPVs}

\* rows of distinct times as a file, in the order of their times
RowFile(rows) ==
    LET times == SetToSortedSeq({r.t : r \in rows})
    IN  [i \in 1..Len(times) |->
            LET r == CHOOSE q \in rows : q.t = times[i] IN FileRow(r.t, r.m)]

\* of the rows of one time, the first is in one file and the second in another
FirstOfTime(rows) == {r \in rows : \A q \in rows : q.t = r.t => r.m <= q.m}

\* the store after one cycle of check_load_new_data over the files on disk
\* and one cycle of find_cal_events
IngestedAndSegmented ==
    LET available == SelectSeq(<<"d1/A.dat", "d1/B.dat">>, LAMBDA p : disk[p] # <<>>)
    IN  CHOOSE store \in
            {[files |-> loaded.files, data |-> done.data, cals |-> done.cals] :
                <<loaded, done>> \in
                    {<<l, SegmentStandards(l.data, l.data, <<>>, <<2, 3, 4>>)>> :
                        l \in {LoadFiles(m.files, <<>>, m.ids, {}) :
                                  m \in {MergeFiles(<<>>, FilesToProcess(<<>>, available))}}}} :
            TRUE

\* the store of a matching run, with the rows the instrument may still write
StoreToMatch(late) ==
    /\ \E E \in [StandardMPVs -> EndSets] :
        /\ E[2] \cap E[3] \cap E[4] = {}
        /\ disk = [p \in Paths |->
                     IF p = "d1/A.dat" THEN RowFile(FirstOfTime(SamplingRows(E)))
                     ELSE RowFile(SamplingRows(E) \ FirstOfTime(SamplingRows(E)))]
    /\ rowsLeft = late
    /\ \E store \in {IngestedAndSegmented} :
        /\ dbFiles = store.files
        /\ dbData = store.data
        /\ dbCals = store.cals
    /\ dbMasterCals = <<>>
    /\ alive = [t \in Tasks |-> TRUE]
    /\ restarts = 0
    /\ fresh = TRUE
    /\ crashed = 0
    /\ matched = NoMatch
    /\ loop = NoLoop
    /\ certified = standards

InitMatch == StoreToMatch(MaxLateRows)

NextMatch ==
    \/ Next
    \/ Matcher
    \/ MatcherRaises
    \/ Restart

SpecMatch == InitMatch /\ [][NextMatch]_vars

\* an iteration of the loop of create_mastercals in which create_curve raises
\* for a MasterCal it built: nothing is committed and the task ends
MatcherCurveRaises ==
    /\ alive["create_mastercals"]
    /\ \E tie \in TieBreaks :
        \E built \in {BuildMasterCals(dbCals, tie)} :
            /\ {k \in 1..Len(built.mastercals) : CurveRaises(dbCals, built.mastercals[k])} # {}
            /\ matched' = built
    /\ alive' = [alive EXCEPT !["create_mastercals"] = FALSE]
    /\ UNCHANGED <<disk, rowsLeft, dbFiles, dbData, dbCals, dbMasterCals, restarts,
                   fresh, crashed, loop, certified>>

\* create_mastercals over a store to match while no further row is written
\* (the other tasks find nothing to do), the plot of create_curve never failing
InitPending == StoreToMatch(0)

NextPending ==
    \/ Matcher
    \/ MatcherCurveRaises

\* the loop of create_mastercals runs again after every sleep
SpecPending ==
    /\ InitPending
    /\ [][NextPending]_vars
    /\ WF_vars(Matcher)
    /\ WF_vars(MatcherCurveRaises)

(***************************************************************************)
(* The curve fit over tables of certified concentrations: the Matcher on   *)
(* the store of a matching run, the program being run with one of the      *)
(* tables below.                                                           *)
(***************************************************************************)
\* the table of the source; the table with the high standard of CO, or of
\* CH4, certified at the concentration of the low standard; and a table on
\* whose line the CO readings lie when the low and the mid sampling end
\* together at t=100 and the high sampling ends at t=260
CertifiedTables ==
    {standards,
     [standards EXCEPT !.high_std.co = standards.low_std.co],
     [standards EXCEPT !.high_std.ch4 = standards.low_std.ch4],
     [standards EXCEPT !.low_std.co = RInt(70), !.mid_std.co = RInt(117),
                       !.high_std.co = Rat(361, 2)]}

InitCurve ==
    /\ \E E \in [StandardMPVs -> EndSets] :
        /\ E[2] \cap E[3] \cap E[4] = {}
        /\ disk = [p \in Paths |->
                     IF p = "d1/A.dat" THEN RowFile(FirstOfTime(SamplingRows(E)))
                     ELSE RowFile(SamplingRows(E) \ FirstOfTime(SamplingRows(E)))]
    /\ rowsLeft = 0
    /\ \E store \in {IngestedAndSegmented} :
        /\ dbFiles = store.files
        /\ dbData = store.data
        /\ dbCals = store.cals
    /\ dbMasterCals = <<>>
    /\ alive = [t \in Tasks |-> TRUE]
    /\ restarts = 0
    /\ fresh = TRUE
    /\ crashed = 0
    /\ matched = NoMatch
    /\ loop = NoLoop
    /\ certified \in CertifiedTables

NextCurve ==
    \/ Matcher
    \/ MatcherCurveRaises

SpecCurve == InitCurve /\ [][NextCurve]_vars

(***************************************************************************)
(* filter_postcal_data: the post-calibration flush filter.  No task of the *)
(* main loop calls it; it is applied here to any event of a store that     *)
(* holds one sampling of the low standard and rows of other valve          *)
(* positions around its end.                                               *)
(***************************************************************************)
\* cal.data[-1].date: CalEvent.data is loaded in the order of Datum.date
LastDate(data, cal) == data[SortByDate(data, cal.data)[Len(cal.data)]].date

\* filter_postcal_data(cal, session): the table data after its commit
filter_postcal_data(data, cal) ==
    Only({[i \in 1..Len(data) |->
              IF data[i].date > last_cal_date /\ data[i].date <= end_flush_date
              THEN [data[i] EXCEPT !.instrument_status = FilteredStatus]
              ELSE data[i]] :
             <<last_cal_date, end_flush_date>> \in
                 {<<d, d + FlushMinutes * 60>> : d \in {LastDate(data, cal)}}})

\* filter_postcal_data is applied to the event with id c
FlushFilterOf(c) ==
    /\ dbData' = filter_postcal_data(dbData, dbCals[c])
    /\ UNCHANGED <<disk, rowsLeft, dbFiles, dbCals, dbMasterCals, alive, restarts,
                   fresh, crashed, matched, loop, certified>>

FlushFilter == \E c \in 1..Len(dbCals) : FlushFilterOf(c)

\* the end of the sampling of the low standard
FlushEnd == MinOf(EndTimes)

\* the times of the rows around it: before the sampling, inside the minute
\* after its end, at the end of that minute and one second later
FlushTimes == {FlushEnd - 95, FlushEnd + 30, FlushEnd + 60, FlushEnd + 61}

\* the valve positions those rows can have
FlushMPVs == {0, 1, 3}

\* the rows of the file: the sampling, the first row of the next one and a
\* row at each time of T
FlushRows(T, V) ==
    {[t |-> t, m |-> 2] : t \in SamplingTimes(FlushEnd) \cup {NextSampling(2)}}
    \cup {[t |-> t, m |-> V[t]] : t \in T}

InitFlush ==
    /\ \E T \in SUBSET FlushTimes : \E V \in [FlushTimes -> FlushMPVs] :
            disk = [p \in Paths |-> IF p = "d1/A.dat" THEN RowFile(FlushRows(T, V)) ELSE <<>>]
    /\ rowsLeft = 0
    /\ EmptyStore
    /\ alive = [t \in Tasks |-> TRUE]
    /\ restarts = 0
    /\ fresh = TRUE
    /\ crashed = 0
    /\ matched = NoMatch
    /\ loop = NoLoop
    /\ certified = standards

NextFlush ==
    \/ Ingestor
    \/ Segmenter
    \/ FlushFilter

SpecFlush == InitFlush /\ [][NextFlush]_vars

\* the tasks of the main loop over the same files, each of them running
\* again and again
NextRun ==
    \/ Ingestor
    \/ Segmenter
    \/ Matcher

SpecRun ==
    /\ InitFlush
    /\ [][NextRun]_vars
    /\ WF_vars(Ingestor)
    /\ WF_vars(Segmenter)
    /\ WF_vars(Matcher)

(***************************************************************************)
(* The event loop (lines 263-270): the four coroutines, one running at a   *)
(* time, each from where it was suspended to its next await.               *)
(***************************************************************************)
\* a loop in which every coroutine may also be suspended between what it reads
\* and what it writes
AwaitsAlsoAfterRead(t) == {"read", "copied", "done"}

\* the positions at which a coroutine awaits: a task of the store only after
\* the work of its iteration (lines 97, 127, 192, 239, 245), fake_move_data
\* also after each file it copied (line 54)
AwaitsAt(t) == IF t = "fake_move_data" THEN {"copied", "done"} ELSE {"done"}

\* lines 44-51: the files of test_data whose name no file of the data
\* directory has, in the order of the listing
FilesToMove ==
    {SelectSeq(order,
               LAMBDA p : PathName(p) \notin {PathName(q) : q \in {q \in Paths : disk[q] # <<>>}}) :
        order \in Perms({p \in Paths : loop.remote[p] # <<>>})}

\* what an iteration reads when it starts: lines 67-75 (the files of the store
\* and db_dates), lines 140-145 (the unlinked Datums of each valve), lines
\* 210-220 (the unlinked events of each standard), lines 44-51
ReadBy(t) ==
    CASE t = "check_load_new_data" -> {<<dbFiles, DbDates(dbData)>>}
      [] t = "find_cal_events" -> {[MPV \in StandardMPVs |-> UnlinkedData(dbData, MPV)]}
      [] t = "create_mastercals" ->
            {<<UnlinkedCals(dbCals, "low_std"), UnlinkedCals(dbCals, "high_std"),
               UnlinkedCals(dbCals, "mid_std")>>}
      [] OTHER -> FilesToMove

\* the loop runs a coroutine that is ready: from the sleep that ended its last
\* iteration it starts the next one and reads, from a sleep within an
\* iteration it goes on with what it had read
Resume(t) ==
    /\ loop.running = ""
    /\ t \in Tasks => alive[t]
    /\ loop.at[t] \in {"sleeping", "read"}
    /\ \E view \in ReadBy(t) :
        loop' = IF loop.at[t] = "sleeping"
                THEN [loop EXCEPT !.running = t, !.at[t] = "read", !.view[t] = view]
                ELSE [loop EXCEPT !.running = t]
    /\ UNCHANGED taskVars

LoopResume == \E t \in LoopTasks : Resume(t)

\* the running coroutine reaches an await and gives the loop back
Await(t) ==
    /\ loop.running = t
    /\ loop.at[t] \in AwaitsAt(t)
    /\ loop' = [loop EXCEPT !.running = "",
                            !.at[t] = CASE @ = "done" -> "sleeping"
                                        [] @ = "copied" -> "read"
                                        [] OTHER -> @,
                            !.view[t] = IF loop.at[t] = "done" THEN <<>> ELSE @]
    /\ UNCHANGED taskVars

LoopAwait == \E t \in LoopTasks : Await(t)

\* lines 76-125 of the running check_load_new_data
LoopIngest ==
    /\ loop.running = "check_load_new_data"
    /\ loop.at["check_load_new_data"] = "read"
    /\ IngestorWork
    /\ loop' = [loop EXCEPT !.at["check_load_new_data"] = "done"]

\* lines 148-191 of the running find_cal_events
LoopSegment ==
    /\ loop.running = "find_cal_events"
    /\ loop.at["find_cal_events"] = "read"
    /\ SegmenterWork
    /\ loop' = [loop EXCEPT !.at["find_cal_events"] = "done"]

\* lines 222-238 of the running create_mastercals
LoopMatch ==
    /\ loop.running = "create_mastercals"
    /\ loop.at["create_mastercals"] = "read"
    /\ MatcherWork
    /\ loop' = [loop EXCEPT !.at["create_mastercals"] = "done"]

\* lines 50-54 of the running fake_move_data: the next file is copied, or
\* there is none left
LoopMove ==
    /\ loop.running = "fake_move_data"
    /\ loop.at["fake_move_data"] = "read"
    /\ \E files \in {loop.view["fake_move_data"]} :
        IF files = <<>>
        THEN /\ loop' = [loop EXCEPT !.at["fake_move_data"] = "done"]
             /\ UNCHANGED <<disk, fresh>>
        ELSE /\ disk' = [disk EXCEPT ![Head(files)] = loop.remote[Head(files)]]
             /\ fresh' = FALSE
             /\ loop' = [loop EXCEPT !.at["fake_move_data"] = "copied",
                                     !.view["fake_move_data"] = Tail(files)]
    /\ UNCHANGED <<rowsLeft, dbFiles, dbData, dbCals, dbMasterCals, alive, restarts,
                   crashed, matched, certified>>

\* test_data holds the files of a run of samplings, the data directory and
\* the store are empty, and the four coroutines were created (lines 265-268)
InitLoop ==
    /\ \E E \in [StandardMPVs -> EndSets] :
        /\ \A m \in StandardMPVs : Cardinality(E[m]) <= 1
        /\ E[2] \cap E[3] \cap E[4] = {}
        /\ loop = [NoLoop EXCEPT !.remote =
                     [p \in Paths |->
                         IF p = "d1/A.dat" THEN RowFile(FirstOfTime(SamplingRows(E)))
                         ELSE RowFile(SamplingRows(E) \ FirstOfTime(SamplingRows(E)))]]
    /\ disk = [p \in Paths |-> <<>>]
    /\ rowsLeft = 0
    /\ EmptyStore
    /\ alive = [t \in Tasks |-> TRUE]
    /\ restarts = 0
    /\ fresh = TRUE
    /\ crashed = 0
    /\ matched = NoMatch
    /\ certified = standards

NextLoop ==
    \/ LoopResume
    \/ LoopIngest
    \/ LoopSegment
    \/ LoopMatch
    \/ LoopMove
    \/ LoopAwait

SpecLoop == InitLoop /\ [][NextLoop]_vars

(***************************************************************************)
(* The three tasks of the store over the files of a run of samplings,      *)
(* where an iteration may end with an exception and the process may be     *)
(* started again.                                                          *)
(***************************************************************************)
InitFault ==
    /\ \E E \in [StandardMPVs -> EndSets] :
        /\ E[2] \cap E[3] \cap E[4] = {}
        /\ disk = [p \in Paths |->
                     IF p = "d1/A.dat" THEN RowFile(FirstOfTime(SamplingRows(E)))
                     ELSE RowFile(SamplingRows(E) \ FirstOfTime(SamplingRows(E)))]
    /\ rowsLeft = 0
    /\ EmptyStore
    /\ alive = [t \in Tasks |-> TRUE]
    /\ restarts = 0
    /\ fresh = TRUE
    /\ crashed = 0
    /\ matched = NoMatch
    /\ loop = NoLoop
    /\ certified = standards

NextFault ==
    \/ Ingestor
    \/ IngestorCrash
    \/ Segmenter
    \/ SegmenterCrash
    \/ Matcher
    \/ MatcherCrash
    \/ Restart

SpecFault == InitFault /\ [][NextFault]_vars

(***************************************************************************)
(* What the claims speak of.                                               *)
(***************************************************************************)
\* the Datums linked to a CalEvent
Members(c) == {i \in 1..Len(dbData) : dbData[i].cal_id = c}

MemberDates(c) == {dbData[i].date : i \in Members(c)}

\* last timestamp minus first timestamp of the members of an event
Span(c) == MaxOf(MemberDates(c)) - MinOf(MemberDates(c))

\* i and j are Datums of one standard category with no Datum of that category
\* strictly between them in time
ConsecutiveInCategory(i, j) ==
    /\ i # j
    /\ dbData[i].mpv_position \in StandardMPVs
    /\ dbData[i].mpv_position = dbData[j].mpv_position
    /\ dbData[i].date <= dbData[j].date
    /\ ~\E k \in 1..Len(dbData) :
          /\ dbData[k].mpv_position = dbData[i].mpv_position
          /\ dbData[i].date < dbData[k].date
          /\ dbData[k].date < dbData[j].date

\* C1: two Datums of one standard category that are consecutive in time and
\* both linked to an event are in the same event iff their gap is <= 60 s.
C1_SameEventIffGapAtMost60 ==
    \A i, j \in 1..Len(dbData) :
        (/\ ConsecutiveInCategory(i, j)
         /\ dbData[i].cal_id # 0
         /\ dbData[j].cal_id # 0)
        => (dbData[i].cal_id = dbData[j].cal_id
            <=> dbData[j].date - dbData[i].date <= GapSeconds)

\* C5: an event is tagged 'dump' iff its span is under 90 s, and an event that
\* keeps its standard has its results.
C5_DumpIffSpanUnder90 ==
    \A c \in 1..Len(dbCals) :
        /\ dbCals[c].standard_used = "dump" <=> Span(c) < MinDuration
        /\ dbCals[c].standard_used # "dump" =>
              /\ dbCals[c].co_result # None
              /\ dbCals[c].co2_result # None
              /\ dbCals[c].ch4_result # None

\* C7: the Datums that enter the statistics of an event are exactly its
\* members with a timestamp strictly after (event end - 21 s).
C7_ResultFromTrailingWindowOnly ==
    \A c \in 1..Len(dbCals) :
        dbCals[c].standard_used # "dump" =>
            Range(dbCals[c].data_to_use)
                = {i \in Members(c) : dbData[i].date > dbCals[c].date - BackPeriod}

\* C8: no two Datums of the store have the same timestamp.
C8_NoTwoDatumsShareATimestamp ==
    \A i, j \in 1..Len(dbData) : dbData[i].date = dbData[j].date => i = j

\* C9: when no file has grown since the last completed ingestion cycle, the
\* next cycle finds no file to process.
C9_UnchangedFilesAreIgnored ==
    fresh => \A available \in AllAvailableFiles :
                FilesToProcess(dbFiles, available) = <<>>

\* every row of the file of a processed DataFile is in the store
RowsCommitted(f) ==
    \A r \in 1..Len(disk[dbFiles[f].path]) :
        \E i \in 1..Len(dbData) :
            dbData[i].date = utcfromtimestamp(disk[dbFiles[f].path][r].EPOCH_TIME)

\* C10: a processed flag is only true with the rows of the file committed, and
\* when ingestion fails while it processes a file, that file's flag is false
\* in the store.
C10_FlagFalseUntilFileDone ==
    /\ fresh => \A f \in 1..Len(dbFiles) : dbFiles[f].processed => RowsCommitted(f)
    /\ crashed # 0 => ~dbFiles[crashed].processed

\* the member events of a MasterCal with the given subcals that have the
\* standard std
MembersOfType(subcals, std) ==
    {i \in 1..Len(subcals) : dbCals[subcals[i]].standard_used = std}

\* C2: no CalEvent is in more than one MasterCal: neither in two of the
\* persisted ones nor in two of the triples one Matcher cycle forms.
C2_NoEventInTwoMasterCals ==
    /\ \A a, b \in 1..Len(matched.triples) :
          a # b => Range(matched.triples[a]) \cap Range(matched.triples[b]) = {}
    /\ \A a, b \in 1..Len(dbMasterCals) :
          a # b => Range(dbMasterCals[a].subcals) \cap Range(dbMasterCals[b].subcals) = {}

\* exactly one low, one mid and one high event, and no other
ThreeMembers(subcals) ==
    /\ Len(subcals) = 3
    /\ \A std \in {"low_std", "mid_std", "high_std"} :
          Cardinality(MembersOfType(subcals, std)) = 1

\* C3: every MasterCal, as the Matcher has it in memory and as it is
\* persisted, has exactly one low, one mid and one high member event.
C3_ExactlyOneLowMidHigh ==
    /\ \A k \in 1..Len(matched.mastercals) : ThreeMembers(matched.mastercals[k])
    /\ \A k \in 1..Len(dbMasterCals) : ThreeMembers(dbMasterCals[k].subcals)

\* a cycle of create_mastercals over the store cals, with the tie rule given,
\* would reach its end having created a MasterCal
WouldCreate(cals, tie) ==
    \E built \in {BuildMasterCals(cals, tie)} :
        /\ built.mastercals # <<>>
        /\ \A k \in 1..Len(built.mastercals) : ~CurveRaises(cals, built.mastercals[k])

\* C4: after a Matcher cycle that created MasterCals, a second cycle over the
\* store it left creates none.
C4_MatchingIsIdempotent ==
    [][dbMasterCals' # dbMasterCals => ~WouldCreate(dbCals', matched'.tie)]_vars

\* the MasterCals of the store and of the Matcher's memory hold no event
\* tagged 'dump'
NoDumpInMasterCal ==
    /\ \A k \in 1..Len(dbMasterCals) :
          \A i \in 1..Len(dbMasterCals[k].subcals) :
              dbCals[dbMasterCals[k].subcals[i]].standard_used # "dump"
    /\ \A k \in 1..Len(matched.mastercals) :
          \A i \in 1..Len(matched.mastercals[k]) :
              dbCals[matched.mastercals[k][i]].standard_used # "dump"
    /\ \A c \in 1..Len(dbCals) :
          dbCals[c].standard_used = "dump" => dbCals[c].mastercal_id = 0

\* an event tagged 'dump' stays tagged, and its Datums stay linked to it
DumpIsKept ==
    /\ Len(dbCals') >= Len(dbCals)
    /\ Len(dbData') >= Len(dbData)
    /\ \A c \in 1..Len(dbCals) :
          dbCals[c].standard_used = "dump" =>
              /\ dbCals'[c].standard_used = "dump"
              /\ \A i \in 1..Len(dbData) :
                    dbData[i].cal_id = c => dbData'[i].cal_id = c

\* C6: no MasterCal ever contains an event tagged 'dump', an event tagged
\* 'dump' never gets another category, and its Datums are never linked to
\* another event.
C6_DumpNeverMatched == []NoDumpInMasterCal /\ [][DumpIsKept]_vars

\* a cycle of create_mastercals built a MasterCal while the store it queried
\* held an event tagged 'dump'
C6_Witness ==
    /\ matched.mastercals # <<>>
    /\ \E c \in 1..matched.read : dbCals[c].standard_used = "dump"

\* the unlinked events of standard std in the table cals
Pool(cals, std) ==
    {i \in 1..Len(cals) : cals[i].mastercal_id = 0 /\ cals[i].standard_used = std}

\* x is an event of pool whose end is at the least absolute distance from the
\* end of event c
NearestIn(cals, c, pool, x) ==
    /\ x \in pool
    /\ \A y \in pool :
          Abs(cals[x].date - cals[c].date) <= Abs(cals[y].date - cals[c].date)

\* C11: in every triple a Matcher cycle forms, the high event is a nearest one
\* to the low event among the unlinked high events of the store the cycle
\* read, and the mid event is a nearest one to that high event (not to the low
\* event) among the unlinked mid events.
C11_NearestHighThenNearestMid ==
    [][matched' # matched =>
          \A k \in 1..Len(matched'.triples) :
              /\ NearestIn(dbCals, matched'.triples[k][1], Pool(dbCals, "high_std"),
                           matched'.triples[k][2])
              /\ NearestIn(dbCals, matched'.triples[k][2], Pool(dbCals, "mid_std"),
                           matched'.triples[k][3])]_vars

\* a cycle formed a triple while the store held a further unlinked mid event
\* that is nearer to the low event than the mid event chosen, but farther from
\* the high event
C11_Witness ==
    \E k \in 1..Len(matched.triples) :
        \E m \in 1..matched.read :
            /\ dbCals[m].standard_used = "mid_std"
            /\ dbCals[m].mastercal_id = 0
            /\ Abs(dbCals[m].date - dbCals[matched.triples[k][1]].date)
                  < Abs(dbCals[matched.triples[k][3]].date
                        - dbCals[matched.triples[k][1]].date)
            /\ Abs(dbCals[m].date - dbCals[matched.triples[k][2]].date)
                  > Abs(dbCals[matched.triples[k][3]].date
                        - dbCals[matched.triples[k][2]].date)

\* the least absolute distance between the end of event c and the end of an
\* event of the pool ids, which is not empty
MinDistance(cals, c, ids) ==
    MinOf({Abs(cals[ids[i]].date - cals[c].date) : i \in 1..Len(ids)})

\* the standard whose pool is searched from an event of standard std
SearchedFrom(std) ==
    IF std = "low_std" THEN {"high_std"}
    ELSE IF std = "high_std" THEN {"mid_std"}
    ELSE {}

\* C12: a nearest-time search from an unlinked event returns no match iff its
\* pool is empty or the least absolute difference is over 5 minutes; a nearest
\* candidate at exactly 5 minutes, or at a difference of zero, is returned.
C12_SkippedIffEmptyOrOver5Min ==
    \A tie \in TieBreaks : \A c \in 1..Len(dbCals) :
        \A std \in SearchedFrom(dbCals[c].standard_used) :
            dbCals[c].mastercal_id = 0 =>
                (match_cals_by_min(dbCals, c, UnlinkedCals(dbCals, std), MatchMinutes, tie) = 0
                 <=> \/ UnlinkedCals(dbCals, std) = <<>>
                     \/ MinDistance(dbCals, c, UnlinkedCals(dbCals, std)) > MatchMinutes * 60)

\* the MasterCals, as lists of events, that a cycle of create_mastercals
\* commits when it visits the unlinked low events in the order lowcals: none
\* when create_curve raises for one of them
Produced(cals, lowcals, tie) ==
    Only({IF \E k \in 1..Len(built.mastercals) : CurveRaises(cals, built.mastercals[k])
          THEN {}
          ELSE Range(built.mastercals) :
             built \in {BuildInOrder(cals, lowcals, tie)}})

\* C13: over every store, the triples one Matcher cycle forms and the
\* MasterCals it commits are the same for every order in which the unlinked
\* low events are visited.
C13_SameForEveryOrderOfLows ==
    \A tie \in TieBreaks :
        \A lowcals \in Perms(Range(UnlinkedCals(dbCals, "low_std"))) :
            /\ Range(BuildInOrder(dbCals, lowcals, tie).triples)
                  = Range(BuildMasterCals(dbCals, tie).triples)
            /\ Produced(dbCals, lowcals, tie)
                  = Produced(dbCals, UnlinkedCals(dbCals, "low_std"), tie)

\* a cycle committed a MasterCal from a store that held two unlinked low
\* events, which can be visited in two orders
C13_Witness ==
    /\ dbMasterCals # <<>>
    /\ \E k \in 1..Len(matched.triples) :
          \E b \in 1..matched.read :
              /\ b # matched.triples[k][1]
              /\ dbCals[b].standard_used = "low_std"
              /\ dbCals[b].mastercal_id = 0
              /\ dbCals[matched.triples[k][1]].mastercal_id = Len(dbMasterCals)

\* a Datum that is linked to an event keeps that link
LinkIsKept ==
    /\ Len(dbData') >= Len(dbData)
    /\ \A i \in 1..Len(dbData) :
          dbData[i].cal_id # 0 => dbData'[i].cal_id = dbData[i].cal_id

\* the events a step adds hold only Datums that were not linked before it
NewEventsTakeUnlinked ==
    \A c \in (Len(dbCals) + 1)..Len(dbCals') :
        \A k \in 1..Len(dbCals'[c].data) : dbData[dbCals'[c].data[k]].cal_id = 0

\* no Datum is in the data of two events, and the data of an event are the
\* Datums linked to it
EventsDisjoint ==
    /\ \A a, b \in 1..Len(dbCals) :
          a # b => Range(dbCals[a].data) \cap Range(dbCals[b].data) = {}
    /\ \A c \in 1..Len(dbCals) : Range(dbCals[c].data) = Members(c)

\* C17: the link of a Datum to a CalEvent is set at most once and then never
\* changed or cleared; every Datum is in at most one event; the Segmenter
\* never makes an event with a Datum that is already linked.
C17_CalLinkIsSingleAssignment ==
    []EventsDisjoint /\ [][LinkIsKept /\ NewEventsTakeUnlinked]_vars

\* two events hold Datums of one valve position that are at most 60 s apart:
\* the second was made by a later cycle, over a store with linked Datums
C17_Witness ==
    \E i, j \in 1..Len(dbData) :
        /\ dbData[i].mpv_position = dbData[j].mpv_position
        /\ dbData[i].cal_id # 0
        /\ dbData[j].cal_id # 0
        /\ dbData[i].cal_id # dbData[j].cal_id
        /\ Abs(dbData[i].date - dbData[j].date) <= GapSeconds

\* the maximal runs of the unlinked Datums of a valve position: the sets of
\* Datums, taken in the order of their dates, with no gap of more than 60 s
\* between one and the next
MaximalRuns(data, MPV) ==
    Only({{{ids[q] : q \in {q \in 1..Len(ids) :
                                \A r \in (IF p < q THEN p ELSE q)..((IF p < q THEN q ELSE p) - 1) :
                                    data[ids[r + 1]].date - data[ids[r]].date <= GapSeconds}} :
              p \in 1..Len(ids)} :
             ids \in {SortByDate(data, UnlinkedData(data, MPV))}})

\* C18: over every store, the events one Segmenter cycle makes from the
\* unlinked Datums of a standard are exactly their maximal runs, the run after
\* the last gap and a single run without any gap included.
C18_EveryRunBecomesAnEvent ==
    \A MPV \in StandardMPVs :
        {Range(ev.data) : ev \in Range(CalEventsOf(dbData, MPV))} = MaximalRuns(dbData, MPV)

\* what C14 says of filter_postcal_data applied to the event c: ambient Datums
\* strictly inside the minute after the end of the event are flagged, and
\* every Datum at or before the end, or a minute or more after it, is left
\* as it was
FlushesOpenWindow(c) ==
    \A i \in 1..Len(dbData) :
        \E t \in {dbData[i].date} : \E end \in {LastDate(dbData, dbCals[c])} :
            /\ (dbData[i].mpv_position = 1 /\ end < t /\ t < end + 60)
                  => dbData'[i].instrument_status = FilteredStatus
            /\ (t <= end \/ t >= end + 60) => dbData'[i] = dbData[i]

\* C14: the flush filter applied to an event flags the Datums with a
\* timestamp strictly between the event end and the event end + 60 s, and
\* leaves every Datum at or before the event end, or at or after the event
\* end + 60 s, untouched.
C14_FlushWindowIsOpenInterval ==
    [][\A c \in 1..Len(dbCals) : FlushFilterOf(c) => FlushesOpenWindow(c)]_vars

\* what C15 says of a step of the flush filter: only Datums of valve position
\* 1 change, and of those only the instrument status, to a value other than
\* the good-data code
FlushesAmbientOnly ==
    \A i \in 1..Len(dbData) :
        /\ dbData[i].mpv_position # 1 => dbData'[i] = dbData[i]
        /\ dbData'[i] # dbData[i] =>
              /\ dbData'[i] = [dbData[i] EXCEPT
                                  !.instrument_status = dbData'[i].instrument_status]
              /\ dbData'[i].instrument_status # GoodStatus

\* C15: the flush filter changes only ambient Datums (valve position 1), and
\* of a Datum it flags only the instrument status, to a value other than 963.
C15_FlushChangesAmbientOnly ==
    [][(\E c \in 1..Len(dbCals) : FlushFilterOf(c)) => FlushesAmbientOnly]_vars

\* an ambient Datum in the minute after the end of an event that has kept its
\* standard does not carry the filtered status
PendingFlush ==
    \E c \in 1..Len(dbCals) : \E i \in 1..Len(dbData) :
        /\ dbCals[c].standard_used # "dump"
        /\ dbData[i].mpv_position = 1
        /\ LastDate(dbData, dbCals[c]) < dbData[i].date
        /\ dbData[i].date < LastDate(dbData, dbCals[c]) + 60
        /\ dbData[i].instrument_status # FilteredStatus

\* C16: once the Segmenter has committed an event that keeps its standard, the
\* running system eventually applies the flush filter to it: the ambient
\* Datums of the minute after its end eventually carry the filtered status.
C16_FlushEventuallyApplied == PendingFlush ~> ~PendingFlush

\* the events of a store to match
CalIds == 1..(3 * MaxEvents)

\* the low event l is unlinked, an unlinked high event nearest to it is within
\* 5 minutes of it, and an unlinked mid event nearest to that high event is
\* within 5 minutes of the high event
HasPartners(l) ==
    /\ l \in Pool(dbCals, "low_std")
    /\ \E h \in Pool(dbCals, "high_std") :
          /\ NearestIn(dbCals, l, Pool(dbCals, "high_std"), h)
          /\ Abs(dbCals[h].date - dbCals[l].date) <= MatchMinutes * 60
          /\ \E m \in Pool(dbCals, "mid_std") :
                /\ NearestIn(dbCals, h, Pool(dbCals, "mid_std"), m)
                /\ Abs(dbCals[m].date - dbCals[h].date) <= MatchMinutes * 60

\* the event c is linked to a MasterCal of the store
Linked(c) == c <= Len(dbCals) /\ dbCals[c].mastercal_id # 0

\* an unlinked event that the step puts into no MasterCal stays unlinked, with
\* its category
PendingIsKept ==
    \A c \in 1..Len(dbCals) :
        (dbCals[c].mastercal_id = 0 /\ dbMasterCals' = dbMasterCals) =>
            /\ dbCals'[c].mastercal_id = 0
            /\ dbCals'[c].standard_used = dbCals[c].standard_used

\* C19: an event without a partner stays pending, unlinked and with its
\* category; the Matcher task keeps cycling; and whenever the store holds an
\* unlinked low event with a nearest high event within tolerance and a nearest
\* mid event of that high event within tolerance, a MasterCal for that low
\* event is eventually committed.
C19_PendingEventuallyMatched ==
    /\ [][PendingIsKept]_vars
    /\ [](alive["create_mastercals"])
    /\ \A l \in CalIds : HasPartners(l) ~> Linked(l)

\* a task of the store has read the store for its iteration and has not yet
\* committed its last write
InsideIteration(t) == loop.at[t] = "read"

\* the tables of the store
StoreTables == <<dbFiles, dbData, dbCals, dbMasterCals>>

\* inside the iteration of a task no other coroutine takes a step, and the
\* store changes only by the task's own commits
NoOtherTaskRuns ==
    \A t \in Tasks :
        InsideIteration(t) =>
            /\ \A u \in LoopTasks \ {t} :
                   /\ loop'.at[u] = loop.at[u]
                   /\ loop'.view[u] = loop.view[u]
            /\ StoreTables' # StoreTables => loop.running = t /\ loop'.at[t] = "done"

\* what a task inside its iteration works on is what the store holds now: it
\* was read after the last suspension of the task
ViewIsCurrent ==
    \A t \in Tasks : InsideIteration(t) => loop.running = t /\ loop.view[t] \in ReadBy(t)

\* C20: cooperative exclusivity: between the first read of the store and the
\* last commit of a task iteration no other task's loop body runs, so no
\* other task observes or changes the store inside the iteration; and the
\* pending work an iteration uses (unprocessed files and known timestamps,
\* unlinked Datums, unlinked events) was read from the store after the last
\* suspension of its task.
C20_CooperativeExclusivity == []ViewIsCurrent /\ [][NoOtherTaskRuns]_vars

\* find_cal_events runs its iteration on the unlinked Datums it has just read,
\* after check_load_new_data stored them, while fake_move_data is suspended in
\* the middle of its own iteration with a file still to copy
C20_Witness ==
    /\ loop.running = "find_cal_events"
    /\ InsideIteration("find_cal_events")
    /\ \E MPV \in StandardMPVs : loop.view["find_cal_events"][MPV] # <<>>
    /\ loop.at["fake_move_data"] = "read"
    /\ loop.view["fake_move_data"] # <<>>

\* the files an iteration of check_load_new_data that fails at its (k+1)-th
\* file had taken up, less those that are processed in the store with their
\* rows when it has failed
LostFiles(available, k) ==
    Only({k + 1 - Cardinality({i \in 1..k :
                                  (dbFiles[ids[i]].processed /\ RowsCommitted(ids[i]))'}) :
             ids \in {MergeFiles(dbFiles, FilesToProcess(dbFiles, available)).ids}})

\* the events an iteration of find_cal_events that fails at the (k+1)-th event
\* of its j-th standard had taken up, less those the store has gained
LostEvents(j, k) ==
    (Len(SegmentedBefore(j).cals) - Len(dbCals)) + k + 1 - (Len(dbCals') - Len(dbCals))

\* the triples an iteration of create_mastercals that fails at its (k+1)-th
\* MasterCal had taken up, less the MasterCals the store has gained
LostTriples(k) == k + 1 - (Len(dbMasterCals') - Len(dbMasterCals))

\* C21: an iteration that fails loses at most the one unit of work it was at:
\* at most one file's rows in check_load_new_data, at most one calibration
\* event in find_cal_events, at most one triple in create_mastercals; the
\* units it had completed before are committed.
C21_FaultLosesAtMostOneUnit ==
    [][/\ \A available \in AllAvailableFiles : \A k \in 0..(MaxFiles - 1) :
              IngestorCrashAt(available, k) => LostFiles(available, k) <= 1
       /\ \A j \in 1..Len(StandardOrder) : \A k \in 0..(MaxRows - 1) :
              SegmenterCrashAt(j, k) => LostEvents(j, k) <= 1
       /\ \A tie \in TieBreaks : \A k \in 0..(MaxEvents - 1) :
              MatcherCrashAt(tie, k) => LostTriples(k) <= 1]_vars

\* the records of the registry that have the name of record f
Namesakes(files, f) == {g \in 1..Len(files) : files[g].name = files[f].name}

\* more than one record of the registry has one name
Ambiguous(files) == \E f \in 1..Len(files) : Cardinality(Namesakes(files, f)) > 1

\* a cycle of check_load_new_data over an ambiguous registry reaches its end:
\* the task goes on, a record the scan takes up is the first of its name, and
\* every file the cycle takes up is processed with its rows in the store
AmbiguityIsTolerated ==
    Ambiguous(dbFiles) /\ disk' = disk =>
        /\ alive'["check_load_new_data"]
        /\ fresh'
        /\ \A available \in AllAvailableFiles :
               /\ \A e \in Range(ScanFiles(dbFiles, available)) :
                      e.id # 0 => e.id = MinOf(Namesakes(dbFiles, e.id))
               /\ \A e \in Range(FilesToProcess(dbFiles, available)) :
                      \E f \in 1..Len(dbFiles') :
                          /\ dbFiles'[f].path = e.path
                          /\ (dbFiles[f].processed /\ RowsCommitted(f))'

\* C22: when more than one record of the registry has the name of a
\* discovered file, the scan uses the first of them and the cycle completes:
\* the task does not fail, and the files of the cycle are ingested.
C22_AmbiguousNameUsesFirstRecord == [][AmbiguityIsTolerated]_vars

\* two records have one name, and a cycle that ran over them has ingested the
\* row by which the file of the first record had grown
C22_Witness ==
    /\ Ambiguous(dbFiles)
    /\ alive["check_load_new_data"]
    /\ fresh
    /\ Cardinality(Namesakes(dbFiles, 1)) > 1
    /\ Len(disk[dbFiles[1].path]) > dbFiles[1].size
    /\ RowsCommitted(1)

\* the event has a result with mean, median and stdev for every compound
HasResults(c) ==
    \A i \in 1..Len(Compounds) :
        /\ ResultOf(dbCals[c], Compounds[i]) # None
        /\ ResultOf(dbCals[c], Compounds[i])[1].mean # None
        /\ ResultOf(dbCals[c], Compounds[i])[1].median # None
        /\ ResultOf(dbCals[c], Compounds[i])[1].stdev # None

\* slope, intercept and mid-point offset are set for every compound
FitIsSet(mc) ==
    /\ mc.co_slope # None /\ mc.co_intercept # None /\ mc.co_middle_offset # None
    /\ mc.co2_slope # None /\ mc.co2_intercept # None /\ mc.co2_middle_offset # None
    /\ mc.ch4_slope # None /\ mc.ch4_intercept # None /\ mc.ch4_middle_offset # None

\* C23: every persisted MasterCal has its low, mid and high event, each with
\* a result for every compound, and has slope, intercept and mid-point
\* offset set for every compound; and no triple a Matcher cycle forms holds an
\* event whose result for a compound is unset.
C23_MasterCalIsComplete ==
    /\ \A k \in 1..Len(dbMasterCals) :
          /\ ThreeMembers(dbMasterCals[k].subcals)
          /\ \A c \in Range(dbMasterCals[k].subcals) : HasResults(c)
          /\ FitIsSet(dbMasterCals[k])
    /\ \A k \in 1..Len(matched.triples) :
          \A c \in Range(matched.triples[k]) : HasResults(c)

\* a MasterCal is persisted while the store also holds an unlinked event
\* without results (a 'dump'), sampled from a standard
C23_Witness ==
    /\ dbMasterCals # <<>>
    /\ matched.triples # <<>>
    /\ \E c \in 1..Len(dbCals) :
          /\ dbCals[c].mastercal_id = 0
          /\ dbCals[c].co2_result = None

\* the columns of a MasterCal for one compound
FitOf(mc, cpd) ==
    IF cpd = "co"
    THEN [slope |-> mc.co_slope[1], intercept |-> mc.co_intercept[1],
          middle_offset |-> mc.co_middle_offset[1]]
    ELSE IF cpd = "co2"
    THEN [slope |-> mc.co2_slope[1], intercept |-> mc.co2_intercept[1],
          middle_offset |-> mc.co2_middle_offset[1]]
    ELSE [slope |-> mc.ch4_slope[1], intercept |-> mc.ch4_intercept[1],
          middle_offset |-> mc.ch4_middle_offset[1]]

\* the point of a standard of a MasterCal for one compound: the certified
\* concentration and the mean the member event of that standard measured
PointOf(mc, std, cpd) ==
    [x |-> certified[std][cpd],
     y |-> ResultOf(dbCals[find_cal_by_type(dbCals, mc.subcals, std)], cpd)[1].mean[1]]

\* the value of the fitted line of a MasterCal at a concentration
LineAt(mc, cpd, x) == RAdd(RMul(FitOf(mc, cpd).slope, x), FitOf(mc, cpd).intercept)

\* C24: the two-point fit reproduces its endpoints: for every compound of
\* every MasterCal, slope * certified-low + intercept is the measured low
\* mean and slope * certified-high + intercept is the measured high mean,
\* with slope = (measured-high - measured-low) / (certified-high -
\* certified-low) and intercept = measured-low - slope * certified-low.
C24_FitReproducesEndpoints ==
    \A k \in 1..Len(dbMasterCals) : \A i \in 1..Len(Compounds) :
        \E mc \in {dbMasterCals[k]}, cpd \in {Compounds[i]} :
            \E low \in {PointOf(mc, "low_std", cpd)}, high \in {PointOf(mc, "high_std", cpd)} :
                low.x # high.x =>
                    /\ LineAt(mc, cpd, low.x) = low.y
                    /\ LineAt(mc, cpd, high.x) = high.y
                    /\ FitOf(mc, cpd).slope =
                           RDiv(RSub(high.y, low.y), RSub(high.x, low.x))
                    /\ FitOf(mc, cpd).intercept =
                           RSub(low.y, RMul(FitOf(mc, cpd).slope, low.x))

\* a MasterCal fitted with the certified concentrations of the source, whose
\* low and high means differ for every compound
C24_Witness ==
    /\ certified = standards
    /\ \E k \in 1..Len(dbMasterCals) : \A i \in 1..Len(Compounds) :
          /\ FitOf(dbMasterCals[k], Compounds[i]).slope # RInt(0)
          /\ FitOf(dbMasterCals[k], Compounds[i]).intercept # RInt(0)

\* the low and the high standard are certified at one concentration
Degenerate(cpd) == certified.low_std[cpd] = certified.high_std[cpd]

\* the columns of a MasterCal for one compound are unset
FitIsUnset(mc, cpd) ==
    IF cpd = "co"
    THEN mc.co_slope = None /\ mc.co_intercept = None /\ mc.co_middle_offset = None
    ELSE IF cpd = "co2"
    THEN mc.co2_slope = None /\ mc.co2_intercept = None /\ mc.co2_middle_offset = None
    ELSE mc.ch4_slope = None /\ mc.ch4_intercept = None /\ mc.ch4_middle_offset = None

\* a cycle of create_mastercals that built MasterCals of three members each
\* under a table that is degenerate for a compound goes on, and commits every
\* MasterCal it built with the fit of exactly the other compounds
DegenerateFailsForCompoundOnly ==
    /\ \E i \in 1..Len(Compounds) : Degenerate(Compounds[i])
    /\ matched'.mastercals # <<>>
    /\ \A k \in 1..Len(matched'.mastercals) : ThreeMembers(matched'.mastercals[k])
    => /\ alive'["create_mastercals"]
       /\ Len(dbMasterCals') = Len(dbMasterCals) + Len(matched'.mastercals)
       /\ \A k \in (Len(dbMasterCals) + 1)..Len(dbMasterCals') :
              \A i \in 1..Len(Compounds) :
                  Degenerate(Compounds[i]) <=> FitIsUnset(dbMasterCals'[k], Compounds[i])

\* C25: when the certified low and high concentrations of a compound are
\* equal, the curve fit fails for that compound only: no slope, intercept or
\* offset is stored for it, and the fits of the other compounds and the other
\* MasterCals of the cycle are computed and committed.
C25_DegenerateCurveFailsPerCompound == [][DegenerateFailsForCompoundOnly]_vars

\* line 176: the span the discard rule compares with 90 s, ev.date - ev.dates[0]
SpanUsed(c) == dbCals[c].date - dbData[dbCals[c].data[1]].date

\* C26: the recorded end timestamp of every CalEvent is the maximum timestamp
\* of its member Datums, and the span the discard rule uses is the maximum
\* minus the minimum member timestamp, whatever the order in which the
\* Datums were inserted into the store.
C26_EndIsMaxAndSpanIsMaxMinusMin ==
    \A c \in 1..Len(dbCals) :
        /\ dbCals[c].date = MaxOf(MemberDates(c))
        /\ SpanUsed(c) = Span(c)

\* the value at a concentration of the straight line through the low and the
\* high point of a MasterCal, interpolated between the two points
Interpolated(low, high, x) ==
    RAdd(low.y, RDiv(RMul(RSub(high.y, low.y), RSub(x, low.x)), RSub(high.x, low.x)))

\* the three points lie on one straight line
Collinear(low, mid, high) ==
    RMul(RSub(high.y, low.y), RSub(mid.x, low.x)) =
        RMul(RSub(mid.y, low.y), RSub(high.x, low.x))

\* C27: for every compound of every MasterCal the stored mid-point offset is
\* the measured mid mean minus (slope * certified-mid + intercept); it is
\* positive exactly when the measured mid mean lies above the line through
\* the low and the high point, and zero when the three points are collinear.
C27_OffsetIsMeasuredMinusFitted ==
    \A k \in 1..Len(dbMasterCals) : \A i \in 1..Len(Compounds) :
        \E mc \in {dbMasterCals[k]}, cpd \in {Compounds[i]} :
            \E low \in {PointOf(mc, "low_std", cpd)}, mid \in {PointOf(mc, "mid_std", cpd)},
               high \in {PointOf(mc, "high_std", cpd)}, offset \in {FitOf(mc, cpd).middle_offset} :
                /\ offset = RSub(mid.y, LineAt(mc, cpd, mid.x))
                /\ RLess(RInt(0), offset) <=> RLess(Interpolated(low, high, mid.x), mid.y)
                /\ Collinear(low, mid, high) => offset = RInt(0)

\* a MasterCal whose CO points are collinear, with another compound whose
\* measured mid mean lies below the line through its low and its high point
C27_Witness ==
    \E k \in 1..Len(dbMasterCals) :
        \E mc \in {dbMasterCals[k]} :
            /\ Collinear(PointOf(mc, "low_std", "co"), PointOf(mc, "mid_std", "co"),
                         PointOf(mc, "high_std", "co"))
            /\ \E i \in 1..Len(Compounds) :
                  RLess(PointOf(mc, "mid_std", Compounds[i]).y,
                        Interpolated(PointOf(mc, "low_std", Compounds[i]),
                                     PointOf(mc, "high_std", Compounds[i]),
                                     PointOf(mc, "mid_std", Compounds[i]).x))

====
